---- MODULE Spec2Model ----
(***************************************************************************)
(* Model of the api-gateway crate: configuration loading and validation    *)
(* (src/config.rs), the request-id middleware (src/lib.rs) and the server  *)
(* start-up, middleware stack and timeout guard (src/main.rs).             *)
(*                                                                         *)
(* Text values of the configuration (URLs, origins) are sequences of       *)
(* lexemes, e.g. "https://host" is <<"https", "://", "host">>; header      *)
(* values are sequences of bytes.                                          *)
(***************************************************************************)
EXTENDS Integers, Sequences, FiniteSets, TLC

VARIABLES pc, files, env, config_path, raw, result, cors, reqs, generated

vars == <<pc, files, env, config_path, raw, result, cors, reqs, generated>>

(***************************************************************************)
(* Bounds of the model.                                                    *)
(***************************************************************************)
\* longest cors_origins list drawn as input
MaxOrigins == 2
\* number of requests the server accepts in one behaviour
MaxRequests == 2

(***************************************************************************)
(* Program constants.                                                      *)
(***************************************************************************)
DefaultPort == 3000
DefaultTimeoutMs == 15000
MaxTimeoutMs == 300000
MaxPort == 65535
SlowSleepMs == 20000

(***************************************************************************)
(* url::Url::parse on lexeme sequences.  The parser removes ASCII tab and  *)
(* newline from its input, needs "scheme://" and, for the special schemes, *)
(* a non-empty host.                                                       *)
(***************************************************************************)
SpecialSchemes == {"http", "https", "ftp"}

StripTabNewline(s) == SelectSeq(s, LAMBDA tok : tok \notin {"\n", "\t"})

UrlParse(s) ==
    LET t == StripTabNewline(s)
    IN  IF Len(t) >= 2 /\ t[1] \in SpecialSchemes /\ t[2] = "://"
        THEN IF Len(t) >= 3
             THEN [ok |-> TRUE,  scheme |-> t[1], reason |-> ""]
             ELSE [ok |-> FALSE, scheme |-> "",   reason |-> "empty host"]
        ELSE [ok |-> FALSE, scheme |-> "", reason |-> "relative URL without a base"]

(***************************************************************************)
(* ConfigError and Result<AppConfig, ConfigError>.                         *)
(***************************************************************************)
NoError == [kind |-> "none", num |-> 0, name |-> "", reason |-> ""]

ConfigSourceError(msg) == [kind |-> "Config", num |-> 0, name |-> "", reason |-> msg]

InvalidPort(p) == [kind |-> "InvalidPort", num |-> p, name |-> "", reason |-> ""]

InvalidTimeout(ms) == [kind |-> "InvalidTimeout", num |-> ms, name |-> "", reason |-> ""]

InvalidUpstreamUrl(service, why) ==
    [kind |-> "InvalidUpstreamUrl", num |-> 0, name |-> service, reason |-> why]

InvalidCorsOrigin(why) ==
    [kind |-> "InvalidCorsOrigin", num |-> 0, name |-> "", reason |-> why]

EmptyUpstreams == [s \in {} |-> <<>>]

default_host == ""

default_upstreams == EmptyUpstreams

default_cors_origins == << <<"*">> >>

AppConfigRaw(h, p, t, u, c) ==
    [host |-> h, port |-> p, request_timeout_ms |-> t, upstreams |-> u, cors_origins |-> c]

DefaultRaw ==
    AppConfigRaw(default_host, DefaultPort, DefaultTimeoutMs,
                 default_upstreams, default_cors_origins)

NoResult == [tag |-> "none", cfg |-> DefaultRaw, err |-> NoError]

Ok(cfg) == [tag |-> "Ok", cfg |-> cfg, err |-> NoError]

Err(e) == [tag |-> "Err", cfg |-> DefaultRaw, err |-> e]

(***************************************************************************)
(* AppConfig::validate_and_convert.  `order` is the order in which the     *)
(* HashMap of upstreams is iterated: a sequence holding each service name  *)
(* once.  Each check returns early with its error.                         *)
(***************************************************************************)
TimeoutOutOfRange_exclusive(ms) == ms = 0 \/ ms >= MaxTimeoutMs

TimeoutOutOfRange(ms) == ms = 0 \/ ms > MaxTimeoutMs

UpstreamCheck(service, url) ==
    LET parsed == UrlParse(url)
    IN  IF ~parsed.ok
        THEN InvalidUpstreamUrl(service, "Invalid URL format")
        ELSE IF parsed.scheme \notin {"http", "https"}
             THEN InvalidUpstreamUrl(service, "URL must use http or https scheme")
             ELSE NoError

OriginCheck_any_text(origin) ==
    IF Len(origin) = 0
    THEN InvalidCorsOrigin("CORS origin cannot be empty")
    ELSE NoError

OriginCheck(origin) ==
    IF Len(origin) = 0
    THEN InvalidCorsOrigin("CORS origin cannot be empty")
    ELSE IF origin # <<"*">> /\ ~UrlParse(origin).ok
         THEN InvalidCorsOrigin("Invalid origin URL")
         ELSE NoError

\* the error of the first failing element of a loop, or NoError
FirstError(errs) ==
    LET bad == {i \in 1..Len(errs) : errs[i] # NoError}
    IN  IF bad = {} THEN NoError
        ELSE errs[CHOOSE i \in bad : \A j \in bad : i <= j]

validate_and_convert_origins_first(r, order) ==
    LET upErr == FirstError([i \in 1..Len(order) |->
                                UpstreamCheck(order[i], r.upstreams[order[i]])])
        orErr == FirstError([i \in 1..Len(r.cors_origins) |->
                                OriginCheck(r.cors_origins[i])])
    IN  IF r.port = 0 THEN Err(InvalidPort(r.port))
        ELSE IF TimeoutOutOfRange(r.request_timeout_ms)
             THEN Err(InvalidTimeout(r.request_timeout_ms))
        ELSE IF orErr # NoError THEN Err(orErr)
        ELSE IF upErr # NoError THEN Err(upErr)
        ELSE Ok(AppConfigRaw(r.host, r.port, r.request_timeout_ms,
                             r.upstreams, r.cors_origins))

validate_and_convert(r, order) ==
    LET upErr == FirstError([i \in 1..Len(order) |->
                                UpstreamCheck(order[i], r.upstreams[order[i]])])
        orErr == FirstError([i \in 1..Len(r.cors_origins) |->
                                OriginCheck(r.cors_origins[i])])
    IN  IF r.port = 0 THEN Err(InvalidPort(r.port))
        ELSE IF TimeoutOutOfRange(r.request_timeout_ms)
             THEN Err(InvalidTimeout(r.request_timeout_ms))
        ELSE IF upErr # NoError THEN Err(upErr)
        ELSE IF orErr # NoError THEN Err(orErr)
        ELSE Ok(AppConfigRaw(r.host, r.port, r.request_timeout_ms,
                             r.upstreams, r.cors_origins))

\* the iteration orders of a map's keys
Orders(m) ==
    {o \in [1..Cardinality(DOMAIN m) -> DOMAIN m] :
        \A i, j \in DOMAIN o : i # j => o[i] # o[j]}


(***************************************************************************)
(* Layered configuration sources (the config crate's builder).  A layer    *)
(* gives each scalar key as a set holding at most one value ({} = the      *)
(* source does not provide the key) and the upstreams table as a map;      *)
(* tables are merged key by key, every other key is replaced.              *)
(***************************************************************************)
IntVal(n) == [int |-> TRUE, n |-> n]

ListVal(items) == [list |-> TRUE, items |-> items]

NotAList == [list |-> FALSE, items |-> <<>>]

Layer(h, p, t, u, c) ==
    [host |-> h, port |-> p, request_timeout_ms |-> t, upstreams |-> u, cors_origins |-> c]

EmptyLayer == Layer({}, {}, {}, EmptyUpstreams, {})

\* the set_default calls of load and load_from_file
Defaults ==
    Layer({default_host}, {IntVal(DefaultPort)}, {IntVal(DefaultTimeoutMs)},
          default_upstreams, {ListVal(default_cors_origins)})

Override(lo, hi) == IF hi # {} THEN hi ELSE lo

MergeTables(lo, hi) ==
    [s \in DOMAIN lo \cup DOMAIN hi |-> IF s \in DOMAIN hi THEN hi[s] ELSE lo[s]]

\* a later source is merged over the earlier ones
AddSource(lo, hi) ==
    Layer(Override(lo.host, hi.host),
          Override(lo.port, hi.port),
          Override(lo.request_timeout_ms, hi.request_timeout_ms),
          MergeTables(lo.upstreams, hi.upstreams),
          Override(lo.cors_origins, hi.cors_origins))

\* File::with_name(name).required(false): a missing file adds nothing
FileSource(fs, name) == IF name \in DOMAIN fs THEN fs[name] ELSE EmptyLayer

(***************************************************************************)
(* Environment::with_prefix("APP").separator("_").  A variable name is the *)
(* sequence of its "_"-separated segments.  The name is lowercased, the    *)
(* prefix "app_" is required and removed, and every remaining "_" becomes  *)
(* ".", so the remaining segments are the path of the key that is set.     *)
(***************************************************************************)
ToLower(seg) ==
    CASE seg = "APP" -> "app"
      [] seg = "HOST" -> "host"
      [] seg = "PORT" -> "port"
      [] seg = "REQUEST" -> "request"
      [] seg = "TIMEOUT" -> "timeout"
      [] seg = "MS" -> "ms"
      [] seg = "UPSTREAMS" -> "upstreams"
      [] seg = "ENV" -> "env"
      [] OTHER -> seg

EnvPrefix == "app"

HasPrefix(name) == Len(name) >= 2 /\ ToLower(name[1]) = EnvPrefix

EnvKeyPath(name) == [i \in 1..(Len(name) - 1) |-> ToLower(name[i + 1])]

\* the values the environment sets at the key path `path`
EnvAt(e, path) ==
    {e[name] : name \in {x \in DOMAIN e : HasPrefix(x) /\ EnvKeyPath(x) = path}}

\* the children the environment sets below the table `table`
EnvChildren(e, table) ==
    {EnvKeyPath(x)[2] : x \in {y \in DOMAIN e :
        HasPrefix(y) /\ Len(y) = 3 /\ EnvKeyPath(y)[1] = table}}

EnvironmentSource(e) ==
    Layer({v.str : v \in EnvAt(e, <<"host">>)},
          {[int |-> v.int, n |-> v.n] : v \in EnvAt(e, <<"port">>)},
          {[int |-> v.int, n |-> v.n] : v \in EnvAt(e, <<"request_timeout_ms">>)},
          [s \in EnvChildren(e, "upstreams") |->
              (CHOOSE v \in EnvAt(e, <<"upstreams", s>>) : TRUE).url],
          {NotAList : v \in EnvAt(e, <<"cors_origins">>)})

\* the one value of a key of the built configuration
The(opt) == CHOOSE v \in opt : TRUE

\* cfg.try_deserialize::<AppConfigRaw>(): an environment string that is not
\* a number, or a string where a list is expected, is a source error
try_deserialize(built) ==
    IF ~The(built.port).int
    THEN Err(ConfigSourceError("port: invalid type"))
    ELSE IF ~The(built.request_timeout_ms).int
    THEN Err(ConfigSourceError("request_timeout_ms: invalid type"))
    ELSE IF ~The(built.cors_origins).list
    THEN Err(ConfigSourceError("cors_origins: invalid type"))
    ELSE Ok(AppConfigRaw(The(built.host), The(built.port).n,
                         The(built.request_timeout_ms).n,
                         built.upstreams, The(built.cors_origins).items))

\* the builder of AppConfig::load
LoadSources(fs, e) ==
    AddSource(AddSource(AddSource(Defaults, FileSource(fs, "config")),
                        FileSource(fs, "../../config")),
              EnvironmentSource(e))

\* the builder of AppConfig::load_from_file
LoadFromFileSources(fs, e, path) ==
    AddSource(AddSource(Defaults, FileSource(fs, path)),
              EnvironmentSource(e))

\* the results validation can give for the deserialized sources
Validated(deser) ==
    IF deser.tag = "Err" THEN {deser}
    ELSE {validate_and_convert(deser.cfg, o) : o \in Orders(deser.cfg.upstreams)}

load(fs, e) == Validated(try_deserialize(LoadSources(fs, e)))

load_from_file(fs, e, path) ==
    Validated(try_deserialize(LoadFromFileSources(fs, e, path)))


(***************************************************************************)
(* Header values (http::HeaderValue) are byte sequences.                   *)
(***************************************************************************)
\* bytes: 9 is tab, 127 is DEL, 45 is "-", 48..57 are "0".."9", 97..102 "a".."f"
\* HeaderValue::to_str: only visible ASCII (and tab) reads as a string
to_str_ok(v) == \A i \in 1..Len(v) : (v[i] >= 32 /\ v[i] < 127) \/ v[i] = 9

\* str::parse::<HeaderValue>: no control bytes except tab
\* the identifier is parsed as a header name: a non-empty token of visible
\* ASCII without spaces
parse_ok_as_header_name(v) ==
    /\ Len(v) > 0
    /\ \A i \in 1..Len(v) : v[i] > 32 /\ v[i] < 127

parse_ok(v) == \A i \in 1..Len(v) : (v[i] >= 32 /\ v[i] # 127) \/ v[i] = 9

HexDigits == (48..57) \cup (97..102)

\* Uuid::new_v4().to_string() for the random bits n: the hyphenated form,
\* 36 characters, version nibble 4, variant bits 10
UuidToString(n) ==
    [i \in 1..36 |->
        IF i \in {9, 14, 19, 24} THEN 45
        ELSE IF i = 15 THEN 52
        ELSE IF i = 20 THEN 56 + (n % 2)
        ELSE IF i = 36 THEN 48 + (n % 10)
        ELSE 48]

\* the values Uuid::new_v4 can still produce (a repeated value is taken to
\* have probability zero)
FreshUuids(used) == {UuidToString(n) : n \in 1..MaxRequests} \ used

(***************************************************************************)
(* Responses.                                                              *)
(***************************************************************************)
TextBody(t) == [kind |-> "text", text |-> t, error |-> "", message |-> "", status |-> 0]

JsonBody(e, m, st) == [kind |-> "json", text |-> "", error |-> e, message |-> m, status |-> st]

EmptyBody == [kind |-> "empty", text |-> "", error |-> "", message |-> "", status |-> 0]

Response(st, b) ==
    [status |-> st, body |-> b, xRequestId |-> {}, exposeHeaders |-> {},
     allowMethods |-> {}]

NoResponse == Response(0, EmptyBody)

\* the handlers root and health
root == Response(200, TextBody("api gateway: okay"))

health == Response(200, TextBody("ok"))

\* what slow_endpoint returns once its sleep is over
slow_endpoint == Response(200, TextBody("This should never be reached due to timeout"))

\* impl IntoResponse for ServiceError
into_response(e) ==
    IF e = "Timeout"
    THEN Response(504, JsonBody("Gateway Timeout", "The request timed out", 504))
    ELSE Response(500, JsonBody("Internal Server Error", "An internal error occurred", 500))

(***************************************************************************)
(* with_timeout: one poll of tokio::time::timeout(duration, future) when   *)
(* `elapsed` ms have passed since it was created.  The future is polled    *)
(* first, the deadline second.                                             *)
(***************************************************************************)
FutureReady(elapsed) == elapsed >= SlowSleepMs

DeadlineElapsed(duration, elapsed) == elapsed >= duration

with_timeout_deadline_first(duration, elapsed) ==
    IF DeadlineElapsed(duration, elapsed) THEN "Timeout"
    ELSE IF FutureReady(elapsed) THEN "Ok"
    ELSE "Pending"

with_timeout(duration, elapsed) ==
    IF FutureReady(elapsed) THEN "Ok"
    ELSE IF DeadlineElapsed(duration, elapsed) THEN "Timeout"
    ELSE "Pending"

\* the response of the /slow route for a finished with_timeout
SlowResponse(outcome) ==
    IF outcome = "Ok" THEN slow_endpoint ELSE into_response(outcome)

(***************************************************************************)
(* The router: the three GET routes, 405 for another method on a route,    *)
(* 404 from the fallback.                                                  *)
(***************************************************************************)
Routes == {"/", "/healthz", "/slow"}

Route(method, path) ==
    IF path \notin Routes THEN "not_found"
    ELSE IF method # "GET" THEN "method_not_allowed"
    ELSE IF path = "/" THEN "root"
    ELSE IF path = "/healthz" THEN "health"
    ELSE "slow"

\* the response of a route that answers at its first poll
ImmediateResponse(route) ==
    IF route = "root" THEN root
    ELSE IF route = "health" THEN health
    ELSE IF route = "method_not_allowed" THEN Response(405, EmptyBody)
    ELSE Response(404, EmptyBody)

(***************************************************************************)
(* request_id_middleware.                                                  *)
(***************************************************************************)
\* the client's header value when it is present and reads as a string
SuppliedId(hdr) == {v \in hdr : to_str_ok(v)}

\* lines 36-39: insert the identifier as the x-request-id response header
\* the identifier is read from a slot the requests in flight share
AttachRequestId_shared_slot(resp, id) ==
    LET waiting == {j \in DOMAIN reqs : reqs[j].state = "waiting"}
    IN  [resp EXCEPT !.xRequestId =
            IF waiting = {} THEN {id} ELSE reqs[CHOOSE j \in waiting : TRUE].ctx]

AttachRequestId(resp, id) == [resp EXCEPT !.xRequestId = {id}]

(***************************************************************************)
(* The CORS layer (tower_http::cors), which is the outermost layer.  An    *)
(* OPTIONS request is answered by the layer itself; on every other         *)
(* response it adds the headers computed from the request.                 *)
(***************************************************************************)
NoCors == [mode |-> "none", origins |-> {}]

AllowedMethods == {"GET", "POST", "OPTIONS"}

ExposedHeaders == {"x-request-id"}

IsPreflight(method) == method = "OPTIONS"

PreflightResponse == [Response(200, EmptyBody) EXCEPT !.allowMethods = AllowedMethods]

CorsHeaders_nothing(resp) == resp

CorsHeaders(resp) == [resp EXCEPT !.exposeHeaders = ExposedHeaders]

\* origin.parse::<HeaderValue>() of a configured origin
OriginParses(origin) == \A i \in 1..Len(origin) : origin[i] # "\n"

IsWildcard(cfg) == \E i \in 1..Len(cfg.cors_origins) : cfg.cors_origins[i] = <<"*">>


(***************************************************************************)
(* Requests.  A request is handled in one poll unless its handler          *)
(* suspends; only /slow does, in with_timeout.                             *)
(***************************************************************************)
IdleRequest ==
    [state |-> "idle", method |-> "", path |-> "", hdr |-> {}, ctx |-> {},
     fresh |-> FALSE, elapsed |-> 0, outcome |-> "none", resp |-> NoResponse,
     log |-> <<>>]

\* the response leaves request_id_middleware (lines 36-41) and then the CORS
\* layer; the unwrap of line 38 panics when the identifier is no header value
Complete(r, id, inner, stages) ==
    IF parse_ok(id)
    THEN [r EXCEPT !.state = "done",
                   !.resp = CorsHeaders(AttachRequestId(inner, id)),
                   !.log = r.log \o stages \o <<"attach_id", "cors_headers">>]
    ELSE [r EXCEPT !.state = "panicked", !.log = r.log \o stages]

\* the handler of a route is entered with the identifier in the extensions
Dispatch(r, id, duration) ==
    LET route == Route(r.method, r.path)
        first == with_timeout(duration, 0)
    IN  IF route \in {"not_found", "method_not_allowed"}
        THEN Complete(r, id, ImmediateResponse(route), <<"fallback">>)
        ELSE IF route # "slow"
        THEN Complete(r, id, ImmediateResponse(route), <<"handler">>)
        ELSE IF first = "Pending"
        THEN [r EXCEPT !.state = "waiting",
                       !.log = r.log \o <<"timeout_guard", "handler">>]
        ELSE Complete([r EXCEPT !.outcome = first], id, SlowResponse(first),
                      <<"timeout_guard", "handler">> \o
                      (IF first = "Ok" THEN <<>> ELSE <<"error_map">>))

\* request_id_middleware up to next.run (lines 19-33)
Identified(method, path, hdr, id) ==
    [IdleRequest EXCEPT !.method = method, !.path = path, !.hdr = hdr,
                        !.ctx = {id}, !.fresh = (SuppliedId(hdr) = {}),
                        !.log = <<"cors", "identify">>]

\* the identifiers lines 19-24 can choose
RequestIds(hdr, used) ==
    IF SuppliedId(hdr) # {} THEN SuppliedId(hdr) ELSE FreshUuids(used)

\* the request lines clients send
RequestLines ==
    { <<"GET", "/">>, <<"GET", "/healthz">>, <<"GET", "/slow">>,
      <<"GET", "/missing">>, <<"POST", "/slow">>, <<"OPTIONS", "/">> }

\* x-request-id values clients send: "", "a-1" and the byte 0xC8
HeaderValues == {<<>>, <<97, 45, 49>>, <<200>>}

\* an absent header, or a header with one value
RequestHeaders == {{}} \cup {{v} : v \in HeaderValues}

Receive(i, method, path, hdr) ==
    /\ pc = "serving"
    /\ reqs[i].state = "idle"
    /\ \A j \in 1..(i - 1) : reqs[j].state # "idle"
    /\ IF IsPreflight(method)
       THEN /\ reqs' = [reqs EXCEPT ![i] =
                   [IdleRequest EXCEPT !.state = "done", !.method = method,
                                       !.path = path, !.hdr = hdr,
                                       !.resp = PreflightResponse,
                                       !.log = <<"cors">>]]
            /\ generated' = generated
       ELSE \E id \in RequestIds(hdr, generated) :
            /\ reqs' = [reqs EXCEPT ![i] =
                   Dispatch(Identified(method, path, hdr, id), id,
                            result.cfg.request_timeout_ms)]
            /\ generated' = IF SuppliedId(hdr) # {} THEN generated
                            ELSE generated \cup {id}
    /\ UNCHANGED <<pc, files, env, config_path, raw, result, cors>>

\* time passes for a suspended handler, up to the next timer that fires
AdvanceTime(i) ==
    /\ pc = "serving"
    /\ reqs[i].state = "waiting"
    /\ \E t \in {result.cfg.request_timeout_ms, SlowSleepMs} :
        /\ t > reqs[i].elapsed
        /\ \A u \in {result.cfg.request_timeout_ms, SlowSleepMs} :
              u > reqs[i].elapsed => t <= u
        /\ reqs' = [reqs EXCEPT ![i].elapsed = t]
    /\ UNCHANGED <<pc, files, env, config_path, raw, result, cors, generated>>

\* the task is polled again after a timer woke it
Poll(i) ==
    /\ pc = "serving"
    /\ reqs[i].state = "waiting"
    /\ LET outcome == with_timeout(result.cfg.request_timeout_ms, reqs[i].elapsed)
       IN  /\ outcome # "Pending"
           /\ reqs' = [reqs EXCEPT ![i] =
                  Complete([reqs[i] EXCEPT !.outcome = outcome],
                           The(reqs[i].ctx), SlowResponse(outcome),
                           IF outcome = "Ok" THEN <<>> ELSE <<"error_map">>)]
    /\ UNCHANGED <<pc, files, env, config_path, raw, result, cors, generated>>

(***************************************************************************)
(* main.                                                                   *)
(***************************************************************************)
\* what the `?` of line 130 does with the result of AppConfig::load
AfterLoad_ignoring_error(r) == "loaded"

AfterLoad(r) == IF r.tag = "Ok" THEN "loaded" ELSE "exit_config_error"

RawOf(built, old) ==
    IF try_deserialize(built).tag = "Ok" THEN try_deserialize(built).cfg ELSE old

MainLoad ==
    /\ pc = "start"
    /\ \E r \in load(files, env) :
        /\ result' = r
        /\ pc' = AfterLoad(r)
    /\ raw' = RawOf(LoadSources(files, env), raw)
    /\ UNCHANGED <<files, env, config_path, cors, reqs, generated>>

\* lines 136-163: the CORS layer
MainBuildCors ==
    /\ pc = "loaded"
    /\ IF IsWildcard(result.cfg)
       THEN /\ cors' = [mode |-> "any", origins |-> {}]
            /\ pc' = "cors_built"
       ELSE IF \A i \in 1..Len(result.cfg.cors_origins) :
                   OriginParses(result.cfg.cors_origins[i])
       THEN /\ cors' = [mode |-> "list",
                        origins |-> {result.cfg.cors_origins[i] :
                                        i \in 1..Len(result.cfg.cors_origins)}]
            /\ pc' = "cors_built"
       ELSE /\ cors' = cors
            /\ pc' = "exit_cors_error"
    /\ UNCHANGED <<files, env, config_path, raw, result, reqs, generated>>

\* lines 200-213: TcpListener::bind can fail; axum::serve accepts requests
MainBind ==
    /\ pc = "cors_built"
    /\ \E bound \in BOOLEAN : pc' = IF bound THEN "serving" ELSE "exit_bind_error"
    /\ UNCHANGED <<files, env, config_path, raw, result, cors, reqs, generated>>

(***************************************************************************)
(* Calls of the library's entry points.                                    *)
(***************************************************************************)
LoadFromFileCall ==
    /\ pc = "call_load_from_file"
    /\ \E r \in load_from_file(files, env, config_path) : result' = r
    /\ raw' = RawOf(LoadFromFileSources(files, env, config_path), raw)
    /\ pc' = "returned"
    /\ UNCHANGED <<files, env, config_path, cors, reqs, generated>>

ValidateCall ==
    /\ pc = "call_validate"
    /\ \E o \in Orders(raw.upstreams) : result' = validate_and_convert(raw, o)
    /\ pc' = "returned"
    /\ UNCHANGED <<files, env, config_path, raw, cors, reqs, generated>>


(***************************************************************************)
(* Inputs.                                                                 *)
(***************************************************************************)
HttpUrl == <<"http", "://", "host">>

HttpsUrl == <<"https", "://", "host">>

FtpUrl == <<"ftp", "://", "host">>

NotAUrl == <<"not-a-url">>

NoHostUrl == <<"http", "://">>

Star == <<"*">>

EmptyString == <<>>

NewlineUrl == <<"https", "://", "host", "\n">>

PathUrl == <<"https", "://", "host", "/videos">>

Services == {"file_service", "env_service"}

UpstreamUrls == {HttpUrl, FtpUrl, NotAUrl, NoHostUrl}

Origins == {Star, EmptyString, HttpsUrl, NotAUrl}

UpstreamMaps == UNION {[d -> UpstreamUrls] : d \in SUBSET Services}

OriginLists == UNION {[1..n -> Origins] : n \in 0..MaxOrigins}

\* the raw configurations handed to validate_and_convert
RawConfigs ==
    {AppConfigRaw(h, p, t, u, c) :
        h \in {"", "localhost"},
        p \in {0, 1, DefaultPort, MaxPort},
        t \in {0, 1, DefaultTimeoutMs, MaxTimeoutMs, MaxTimeoutMs + 1},
        u \in UpstreamMaps,
        c \in OriginLists}

EnvVal(str, int, n, url) == [str |-> str, int |-> int, n |-> n, url |-> url]

NoEnv == [x \in {} |-> EnvVal("", FALSE, 0, <<>>)]

NoFiles == [x \in {} |-> EmptyLayer]

APP_HOST == <<"APP", "HOST">>

APP_PORT == <<"APP", "PORT">>

APP_REQUEST_TIMEOUT_MS == <<"APP", "REQUEST", "TIMEOUT", "MS">>

APP_UPSTREAMS_ENV == <<"APP", "UPSTREAMS", "ENV">>

\* every way of setting or leaving unset each variable of `choices`
EnvsOf(choices) ==
    {e \in UNION {[d -> UNION {choices[x] : x \in DOMAIN choices}] :
                     d \in SUBSET DOMAIN choices} :
        \A x \in DOMAIN e : e[x] \in choices[x]}

LoadEnvChoices ==
    (APP_HOST :> {EnvVal("env.example.com", FALSE, 0, <<>>)})
    @@ (APP_PORT :> {EnvVal("5000", TRUE, 5000, <<>>), EnvVal("abc", FALSE, 0, <<>>)})
    @@ (APP_REQUEST_TIMEOUT_MS :> {EnvVal("30000", TRUE, 30000, <<>>)})
    @@ (APP_UPSTREAMS_ENV :> {EnvVal("http://host", FALSE, 0, HttpUrl)})

LoadEnvs == EnvsOf(LoadEnvChoices)

ConfigFileLayers ==
    {Layer(h, p, t, u, c) :
        h \in {{}, {"file.example.com"}},
        p \in {{}, {IntVal(0)}, {IntVal(4000)}},
        t \in {{}, {IntVal(20000)}},
        u \in {EmptyUpstreams, [s \in {"file_service"} |-> HttpUrl]},
        c \in {{}, {ListVal(<<HttpsUrl>>)}}}

ParentFileLayers == {Layer({"parent.example.com"}, {IntVal(4001)}, {}, EmptyUpstreams, {})}

FilesOf(configLayers, parentLayers) ==
    {NoFiles}
    \cup {("config" :> a) : a \in configLayers}
    \cup {("../../config" :> b) : b \in parentLayers}
    \cup {("config" :> a) @@ ("../../config" :> b) : a \in configLayers, b \in parentLayers}

LoadFiles == FilesOf(ConfigFileLayers, ParentFileLayers)

\* the configurations the server is started with
ServerFileLayers ==
    { Layer({}, {}, {IntVal(MaxTimeoutMs)}, EmptyUpstreams, {ListVal(<<HttpsUrl>>)}),
      Layer({}, {}, {IntVal(SlowSleepMs)}, EmptyUpstreams, {}),
      Layer({}, {}, {}, EmptyUpstreams, {ListVal(<<NewlineUrl>>)}),
      Layer({}, {}, {}, EmptyUpstreams, {ListVal(<<PathUrl>>)}),
      Layer({}, {IntVal(0)}, {}, EmptyUpstreams, {}),
      Layer({}, {}, {}, EmptyUpstreams, {ListVal(<<>>)}) }

ServerFiles == {NoFiles} \cup {("config" :> a) : a \in ServerFileLayers}

ServerEnvs == {NoEnv, (APP_PORT :> EnvVal("abc", FALSE, 0, <<>>))}

(***************************************************************************)
(* Specifications.                                                         *)
(***************************************************************************)
NoRequests == [i \in 1..MaxRequests |-> IdleRequest]

\* the server: main, then the requests it serves
Init ==
    /\ pc = "start"
    /\ files \in ServerFiles
    /\ env \in ServerEnvs
    /\ config_path = ""
    /\ raw = DefaultRaw
    /\ result = NoResult
    /\ cors = NoCors
    /\ reqs = NoRequests
    /\ generated = {}

Next ==
    \/ MainLoad
    \/ MainBuildCors
    \/ MainBind
    \/ \E i \in 1..MaxRequests, line \in RequestLines, hdr \in RequestHeaders :
          Receive(i, line[1], line[2], hdr)
    \/ \E i \in 1..MaxRequests : AdvanceTime(i)
    \/ \E i \in 1..MaxRequests : Poll(i)

Spec == Init /\ [][Next]_vars

\* loading the configuration from its sources
InitLoad ==
    /\ \/ pc = "start" /\ config_path = ""
       \/ pc = "call_load_from_file" /\ config_path \in {"config", "../../config"}
    /\ files \in LoadFiles
    /\ env \in LoadEnvs
    /\ raw = DefaultRaw
    /\ result = NoResult
    /\ cors = NoCors
    /\ reqs = NoRequests
    /\ generated = {}

NextLoad ==
    \/ MainLoad
    \/ LoadFromFileCall

SpecLoad == InitLoad /\ [][NextLoad]_vars

\* validate_and_convert on every raw configuration
InitValidate ==
    /\ pc = "call_validate"
    /\ files = NoFiles
    /\ env = NoEnv
    /\ config_path = ""
    /\ raw \in RawConfigs
    /\ result = NoResult
    /\ cors = NoCors
    /\ reqs = NoRequests
    /\ generated = {}

NextValidate == ValidateCall

SpecValidate == InitValidate /\ [][NextValidate]_vars


(***************************************************************************)
(* Properties of the request pipeline.                                     *)
(***************************************************************************)
Answered(i) == reqs[i].state = "done"

\* the request reached request_id_middleware
Identifies(i) == reqs[i].ctx # {}

IsUuidV4String(v) ==
    /\ Len(v) = 36
    /\ \A i \in 1..36 :
        IF i \in {9, 14, 19, 24} THEN v[i] = 45
        ELSE IF i = 15 THEN v[i] = 52
        ELSE v[i] \in HexDigits

\* C1: every response the service sends carries an x-request-id header, on
\* every exit path, the responses of the CORS layer itself included.
C1_EveryResponseHasRequestId ==
    \A i \in 1..MaxRequests : Answered(i) => reqs[i].resp.xRequestId # {}

\* C2: a request whose x-request-id header has a non-empty value gets exactly
\* that value back from request_id_middleware, and no identifier is generated.
C2_NonEmptyValueReused ==
    \A i \in 1..MaxRequests :
        (Answered(i) /\ Identifies(i)
            /\ \E v \in reqs[i].hdr : Len(v) > 0) =>
        /\ reqs[i].resp.xRequestId = reqs[i].hdr
        /\ reqs[i].ctx = reqs[i].hdr
        /\ ~reqs[i].fresh

\* C3: for a request whose x-request-id header is absent or empty,
\* request_id_middleware generates a fresh UUIDv4, and that one identifier is
\* both stored in the extensions and written to the response header.
C3_AbsentOrEmptyGenerates ==
    \A i \in 1..MaxRequests :
        (Answered(i) /\ Identifies(i)
            /\ (reqs[i].hdr = {} \/ reqs[i].hdr = {<<>>})) =>
        /\ reqs[i].fresh
        /\ IsUuidV4String(The(reqs[i].ctx))
        /\ The(reqs[i].ctx) \in generated
        /\ reqs[i].resp.xRequestId = reqs[i].ctx

GuardedAnswered(i) ==
    Answered(i) /\ Route(reqs[i].method, reqs[i].path) = "slow"

C4_Outcome ==
    \A i \in 1..MaxRequests : GuardedAnswered(i) =>
        /\ reqs[i].outcome \in {"Ok", "Timeout"}
        /\ reqs[i].outcome = "Ok" =>
              /\ reqs[i].elapsed >= SlowSleepMs
              /\ reqs[i].resp.status = 200
              /\ reqs[i].resp.body =
                    TextBody("This should never be reached due to timeout")
        /\ reqs[i].outcome = "Timeout" =>
              /\ reqs[i].elapsed >= result.cfg.request_timeout_ms
              /\ reqs[i].elapsed < SlowSleepMs
              /\ reqs[i].resp.status = 504
              /\ reqs[i].resp.body =
                    JsonBody("Gateway Timeout", "The request timed out", 504)
        /\ result.cfg.request_timeout_ms > SlowSleepMs => reqs[i].outcome = "Ok"

C4_Final ==
    \A i \in 1..MaxRequests : Answered(i) => reqs'[i] = reqs[i]

C9_EveryResponseExposes ==
    (pc = "serving" /\ IsWildcard(result.cfg)) =>
        \A i \in 1..MaxRequests :
            Answered(i) => "x-request-id" \in reqs[i].resp.exposeHeaders

\* C9 amended: in wildcard mode every response to a request whose method is
\* not OPTIONS has Access-Control-Expose-Headers naming x-request-id.
C9_NonPreflightResponseExposes ==
    (pc = "serving" /\ IsWildcard(result.cfg)) =>
        \A i \in 1..MaxRequests :
            (Answered(i) /\ reqs[i].method # "OPTIONS") =>
                "x-request-id" \in reqs[i].resp.exposeHeaders

C9_Witness ==
    /\ IsWildcard(result.cfg)
    /\ \E i \in 1..MaxRequests :
        /\ Answered(i)
        /\ reqs[i].resp.status = 504
        /\ "x-request-id" \in reqs[i].resp.exposeHeaders

\* C10: when AppConfig::load returns an error, main returns before the CORS
\* layer is built and the listener bound: no request is accepted or served.
C10_ConfigErrorIsFatal ==
    result.tag = "Err" =>
        /\ pc = "exit_config_error"
        /\ cors = NoCors
        /\ reqs = NoRequests

C10_Witness == result.tag = "Err" /\ pc = "exit_config_error"


(***************************************************************************)
(* Properties of the configuration.                                        *)
(***************************************************************************)
Returned == pc = "returned"

PortRule(r) == r.port # 0

TimeoutRule(r) == r.request_timeout_ms >= 1 /\ r.request_timeout_ms <= 300000

HttpUrlRule(url) == UrlParse(url).ok /\ UrlParse(url).scheme \in {"http", "https"}

UpstreamRule(r) == \A s \in DOMAIN r.upstreams : HttpUrlRule(r.upstreams[s])

OriginRule(origin) == origin = <<"*">> \/ (origin # <<>> /\ UrlParse(origin).ok)

OriginsRule(r) == \A i \in 1..Len(r.cors_origins) : OriginRule(r.cors_origins[i])

\* C5: validate_and_convert succeeds if and only if the port is not 0, the
\* timeout is in 1..=300000, every upstream URL parses with scheme http or
\* https, and every CORS origin is "*" or a non-empty well-formed URL.
C5_ValidIffRulesHold ==
    Returned =>
        (result.tag = "Ok" <=>
            PortRule(raw) /\ TimeoutRule(raw) /\ UpstreamRule(raw) /\ OriginsRule(raw))

C5_Witness ==
    /\ Returned
    /\ result.tag = "Ok"
    /\ raw.request_timeout_ms = 300000
    /\ DOMAIN raw.upstreams # {}
    /\ Len(raw.cors_origins) > 0

\* C6: with several rules violated, validate_and_convert returns the error of
\* the first violated rule in the order port, timeout, upstreams, origins; an
\* InvalidUpstreamUrl names a service whose URL is invalid.
C6_FirstViolatedRuleReported ==
    Returned =>
        /\ ~PortRule(raw) => result = Err(InvalidPort(raw.port))
        /\ (PortRule(raw) /\ ~TimeoutRule(raw)) =>
              result = Err(InvalidTimeout(raw.request_timeout_ms))
        /\ (PortRule(raw) /\ TimeoutRule(raw) /\ ~UpstreamRule(raw)) =>
              /\ result.tag = "Err"
              /\ result.err.kind = "InvalidUpstreamUrl"
              /\ result.err.name \in DOMAIN raw.upstreams
              /\ ~HttpUrlRule(raw.upstreams[result.err.name])
        /\ (PortRule(raw) /\ TimeoutRule(raw) /\ UpstreamRule(raw) /\ ~OriginsRule(raw)) =>
              /\ result.tag = "Err"
              /\ result.err.kind = "InvalidCorsOrigin"

C6_Witness ==
    /\ Returned
    /\ PortRule(raw) /\ TimeoutRule(raw) /\ ~OriginsRule(raw)
    /\ \E s, t \in DOMAIN raw.upstreams :
          HttpUrlRule(raw.upstreams[s]) /\ ~HttpUrlRule(raw.upstreams[t])
    /\ result.err.kind = "InvalidUpstreamUrl"

FieldsValid(cfg) ==
    /\ cfg.port \in 1..65535
    /\ cfg.request_timeout_ms \in 1..300000
    /\ UpstreamRule(cfg)
    /\ OriginsRule(cfg)

\* C7 as stated: every AppConfig returned is fully valid, its CORS origin list
\* non-empty, and each field equals the raw field.
C7_ReturnedConfigValidAndNonEmpty ==
    (Returned /\ result.tag = "Ok") =>
        /\ FieldsValid(result.cfg)
        /\ Len(result.cfg.cors_origins) > 0
        /\ result.cfg = raw

\* C7 amended: every AppConfig returned has a port in 1..65535, a timeout in
\* 1..300000, only well-formed http/https upstream URLs and only origins that
\* are "*" or a well-formed URL (the list may be empty), and each field equals
\* the raw field.
C7_ReturnedConfigValid ==
    (Returned /\ result.tag = "Ok") =>
        /\ FieldsValid(result.cfg)
        /\ result.cfg = raw

C7_Witness ==
    /\ Returned
    /\ result.tag = "Ok"
    /\ result.cfg.cors_origins = <<>>
    /\ DOMAIN result.cfg.upstreams # {}

\* the layer the configuration files give to the call that was made
FilesGiven ==
    IF config_path = ""
    THEN AddSource(FileSource(files, "config"), FileSource(files, "../../config"))
    ELSE FileSource(files, config_path)

\* the APP_-prefixed variable of a field, when it is set
EnvGiven(var) == IF var \in DOMAIN env THEN {env[var]} ELSE {}

Highest(fromEnv, fromFile, default) ==
    IF fromEnv # {} THEN The(fromEnv)
    ELSE IF fromFile # {} THEN The(fromFile)
    ELSE default

\* C8: each of the five fields is loaded from the highest-precedence source
\* that provides it: the APP_ environment variable over the configuration
\* file over the built-in default ("", 3000, 15000, {}, ["*"]).
C8_EnvOverFileOverDefault ==
    (pc \in {"loaded", "returned"} /\ result.tag = "Ok") =>
        /\ result.cfg.host =
              Highest({v.str : v \in EnvGiven(APP_HOST)}, FilesGiven.host, "")
        /\ result.cfg.port =
              Highest({v.n : v \in EnvGiven(APP_PORT)},
                      {v.n : v \in FilesGiven.port}, 3000)
        /\ result.cfg.request_timeout_ms =
              Highest({v.n : v \in EnvGiven(APP_REQUEST_TIMEOUT_MS)},
                      {v.n : v \in FilesGiven.request_timeout_ms}, 15000)
        /\ \A s \in Services \cup {"env"} :
              IF s = "env" /\ EnvGiven(APP_UPSTREAMS_ENV) # {}
              THEN s \in DOMAIN result.cfg.upstreams
                   /\ result.cfg.upstreams[s] = The(EnvGiven(APP_UPSTREAMS_ENV)).url
              ELSE IF s \in DOMAIN FilesGiven.upstreams
              THEN s \in DOMAIN result.cfg.upstreams
                   /\ result.cfg.upstreams[s] = FilesGiven.upstreams[s]
              ELSE s \notin DOMAIN result.cfg.upstreams
        /\ result.cfg.cors_origins =
              Highest({}, {v.items : v \in FilesGiven.cors_origins}, << <<"*">> >>)

(***************************************************************************)
(* Explicit CORS mode at startup.                                          *)
(***************************************************************************)
\* an origin value: scheme, "://", host and at most a port
IsOriginValue(origin) ==
    /\ Len(origin) \in {3, 4}
    /\ origin[1] \in SpecialSchemes
    /\ origin[2] = "://"
    /\ origin[3] = "host"
    /\ Len(origin) = 4 => origin[4] = ":8080"

Loaded == pc \notin {"start", "exit_config_error"}

ExplicitMode == Loaded /\ ~IsWildcard(result.cfg)

AllOriginValues ==
    \A i \in 1..Len(result.cfg.cors_origins) :
        IsOriginValue(result.cfg.cors_origins[i])

\* C11: in explicit CORS mode (no "*" in cors_origins) startup reaches
\* serving only if every configured origin is an origin value of the form
\* scheme+host[:port]; when an entry is not, building the CORS policy fails
\* and startup is aborted before a request is served.
C11_ExplicitOriginsAreOriginValues ==
    /\ (ExplicitMode /\ pc \in {"cors_built", "serving"}) => AllOriginValues
    /\ (ExplicitMode /\ ~AllOriginValues) =>
          /\ pc \in {"loaded", "exit_cors_error"}
          /\ reqs = NoRequests

(***************************************************************************)
(* The order of the stages of one request, as recorded in its log:         *)
(* "cors" is the CORS layer computing its headers from the request,        *)
(* "cors_headers" the layer adding them to the response.                   *)
(***************************************************************************)
StageRank(stage) ==
    CASE stage = "identify" -> 1
      [] stage \in {"cors", "cors_headers"} -> 2
      [] stage = "timeout_guard" -> 3
      [] stage \in {"handler", "fallback"} -> 4
      [] stage = "error_map" -> 5
      [] stage = "attach_id" -> 6

\* C12: within one request the stages run strictly in the order: request
\* identification, CORS header computation, timeout-guarded handler
\* execution, error mapping on failure, attachment of the x-request-id
\* header; the attachment is the last step and happens on every exit path.
C12_StagesInOrderAttachLast ==
    \A i \in 1..MaxRequests :
        Answered(i) =>
            /\ \A a, b \in 1..Len(reqs[i].log) :
                  a < b => StageRank(reqs[i].log[a]) < StageRank(reqs[i].log[b])
            /\ reqs[i].log[1] = "identify"
            /\ reqs[i].log[Len(reqs[i].log)] = "attach_id"

(***************************************************************************)
(* The timeout guard around the handlers.                                  *)
(***************************************************************************)
\* a handler of the router was invoked for the request
HandlerEntered(i) ==
    \E a \in 1..Len(reqs[i].log) : reqs[i].log[a] = "handler"

\* the handler was invoked inside with_timeout
InsideGuard(i) ==
    \E a, b \in 1..Len(reqs[i].log) :
        a < b /\ reqs[i].log[a] = "timeout_guard" /\ reqs[i].log[b] = "handler"

\* C13: every handler invocation dispatched by the router, on every route,
\* runs inside the timeout guard with the configured request_timeout_ms, so
\* a request whose handler has not completed when that duration has passed
\* since the handler was entered is answered at that point.
C13_EveryHandlerInsideGuard ==
    \A i \in 1..MaxRequests :
        HandlerEntered(i) =>
            /\ InsideGuard(i)
            /\ (reqs[i].state = "waiting"
                  /\ reqs[i].elapsed >= result.cfg.request_timeout_ms) =>
                  with_timeout(result.cfg.request_timeout_ms,
                               reqs[i].elapsed) # "Pending"

(***************************************************************************)
(* Independence of concurrent requests.                                    *)
(***************************************************************************)
\* the response's x-request-id is the identifier of the request's own
\* context, which is the request's own header value or was generated for it
OwnIdentifier(i) ==
    /\ Answered(i) => reqs[i].resp.xRequestId \subseteq reqs[i].ctx
    /\ (Answered(i) /\ Identifies(i)) => reqs[i].resp.xRequestId = reqs[i].ctx
    /\ (Identifies(i) /\ ~reqs[i].fresh) => reqs[i].ctx \subseteq reqs[i].hdr
    /\ (Identifies(i) /\ reqs[i].fresh) =>
          \A j \in 1..MaxRequests : j # i => reqs[j].ctx # reqs[i].ctx

\* a step of one request, a timeout included, leaves every other request as
\* it was
OthersUntouched ==
    \A i \in 1..MaxRequests :
        reqs'[i] # reqs[i] =>
            \A j \in 1..MaxRequests : j # i => reqs'[j] = reqs[j]

\* C14: concurrent requests are independent under every interleaving: each
\* response's x-request-id is the identifier stored in its own request's
\* context, never one belonging to another request in flight, and a timeout
\* that cancels one request's handler changes neither the status nor the
\* body nor the identifier of any other request.
C14_RequestsIndependent ==
    /\ [](\A i \in 1..MaxRequests : OwnIdentifier(i))
    /\ [][OthersUntouched]_vars

\* the first request was answered 504 by its timeout while the second, with
\* an identifier of its own, is in flight
C14_Witness ==
    /\ MaxRequests >= 2
    /\ Answered(1) /\ reqs[1].outcome = "Timeout" /\ reqs[1].resp.status = 504
    /\ reqs[2].state = "waiting"
    /\ reqs[1].fresh /\ reqs[2].fresh
    /\ reqs[1].resp.xRequestId = reqs[1].ctx

(***************************************************************************)
(* No request crashes its processing.                                      *)
(***************************************************************************)
\* C15: no inbound request crashes request processing: for every
\* x-request-id header a client sends (absent, empty, text that is no UUID,
\* bytes that are not visible ASCII) request_id_middleware returns a
\* response, the unwrap that turns the chosen identifier into the response
\* header value does not panic, and a timeout or an internal error ends as
\* an HTTP response.
C15_NoRequestPanics ==
    /\ \A i \in 1..MaxRequests :
          /\ reqs[i].state # "panicked"
          /\ Identifies(i) =>
                \/ reqs[i].state = "waiting"
                \/ /\ Answered(i)
                   /\ reqs[i].resp.status \in {200, 404, 405, 504}
                   /\ reqs[i].resp.xRequestId = reqs[i].ctx
                   /\ parse_ok(The(reqs[i].ctx))
          /\ reqs[i].outcome = "Timeout" =>
                /\ Answered(i)
                /\ reqs[i].resp.status = 504
                /\ reqs[i].resp.body.kind = "json"
    /\ \A e \in {"Timeout", "Other"} :
          /\ into_response(e).status \in {500, 504}
          /\ into_response(e).body.status = into_response(e).status

\* a request whose x-request-id is the byte 0xC8 was answered 504 by its
\* timeout, with a generated identifier on the response
C15_Witness ==
    \E i \in 1..MaxRequests :
        /\ reqs[i].hdr = {<<200>>}
        /\ Answered(i)
        /\ reqs[i].outcome = "Timeout"
        /\ reqs[i].resp.status = 504
        /\ IsUuidV4String(The(reqs[i].resp.xRequestId))

====
